---- MODULE Spec2Model ----
(***************************************************************************)
(* Model of the concurrent benchmark engine of llamabench                  *)
(* (src/real_benchmark.py): the prober measure_single_request, the load    *)
(* generator run_concurrent_benchmark, the aggregator _aggregate_results   *)
(* and the entry point run_real_benchmark with its health-check gate.      *)
(*                                                                         *)
(* Time.  The clock `now` counts ticks of one second.  Durations stored in *)
(* a Sample are integers in "du", SubMs du to the millisecond, so that a   *)
(* measured time can be finer than the 3 decimals the aggregator rounds    *)
(* to.  One tick is TickDu du.                                             *)
(*                                                                         *)
(* Scheduling.  The program runs on one asyncio event loop: a task runs    *)
(* without interruption until it suspends at network I/O.  `cur` names the *)
(* task that holds the loop (0: none, the loop is idle or main holds it in *)
(* an atomic step).  During a run the time may pass between any two steps. *)
(***************************************************************************)
EXTENDS Integers, Sequences, FiniteSets, TLC

\* ------------------------------------------------------------------ bounds
NumWorkers == 2         \* `concurrency` of the run
NumPrompts == 2         \* len(prompts)
Duration == 1           \* `duration` of the run, in seconds (ticks)
MaxReq == 2             \* cap on the requests issued in one run
TimeoutTicks == 2       \* the per-request timeout (timeout=30), scaled to ticks
ClockOrigin == 1        \* what the clock reads when the program starts
MaxLines == 2           \* longest streamed body, in lines
MaxSamples == 3         \* longest Sample sequence handed to the aggregator alone
MaxDu == 3              \* longest time measured in a prober or aggregator call alone, in du
MaxAggDuration == 2     \* largest `duration` handed to the aggregator alone
MaxSteadyDuration == 3  \* largest `duration` of a run against a target of constant latency
MaxLatency == 2         \* largest constant latency of such a target, in ticks
SubMs == 2              \* resolution of a measured time: du per millisecond
MaxEngines == 2         \* most engines of a sweep
MaxLevels == 2          \* most concurrency levels of a sweep, and the highest level

\* ------------------------------------------------------- program constants
FallbackTokens == 50    \* src/real_benchmark.py:132
TtftDecimals == 3       \* src/real_benchmark.py:270
TpsDecimals == 1        \* src/real_benchmark.py:273
HttpOk == 200           \* src/real_benchmark.py:78

TickDu == 1000 * SubMs
Workers == 1 .. NumWorkers

\* Optional values: None is the empty sequence, a value v is <<v>>.
None == << >>
Some(v) == << v >>

\* ------------------------------------------------------------ the response
\* What one line of a streamed body decodes to.
\*   tok       {"content": "..."}           an object with a `content` key
\*   tokstop   {"content": "...", "stop": true}   the last chunk of a completion
\*   resp0..2  {"response": "<k words>"}    an object with a `response` key
\*   respnull  {"response": null}
\*   stop      {"stop": true}               an object with neither key
\*   garbage   bytes that are not JSON
LineKinds == {"tok", "tokstop", "resp0", "resp1", "resp2", "respnull", "stop",
              "garbage"}

\* json.loads(line.decode('utf-8')) succeeds
JsonOk(l) == l # "garbage"
HasContent(l) == l \in {"tok", "tokstop"}
\* the object says that the completion is over
HasStop(l) == l \in {"stop", "tokstop"}
HasResponse(l) == l \in {"resp0", "resp1", "resp2", "respnull"}
\* len(data.get('response', '').split()); None.split() raises
ResponseIsStr(l) == l \in {"resp0", "resp1", "resp2"}
Words(l) == CASE l = "resp1" -> 1 [] l = "resp2" -> 2 [] OTHER -> 0

\* The single JSON body of the non-streaming protocol.
\*   bad       not JSON (response.json() raises)
\*   nochoices an object without `choices`
\*   empty     {"choices": []}
\*   text0..2  {"choices": [{"text": "<k words>"}]}
\*   notext    {"choices": [{}]}
BodyKinds == {"bad", "nochoices", "empty", "notext", "text0", "text1", "text2"}
BodyWordsAsOne(b) == IF b \in {"text1", "text2"} THEN 1 ELSE 0

\* len(content.split()) of data['choices'][0].get('text', '')
BodyWords(b) == CASE b = "text1" -> 1 [] b = "text2" -> 2 [] OTHER -> 0

\* Exceptions.  CancelledError is a BaseException, the others are Exceptions.
ExceptionClasses == {"TimeoutError", "ClientError", "ValueError", "IndexError",
                     "JSONDecodeError"}

RECURSIVE SeqsUpTo(_, _)
SeqsUpTo(S, n) ==
    IF n = 0 THEN {<< >>}
    ELSE LET shorter == SeqsUpTo(S, n - 1)
         IN  shorter \cup {Append(q, x) : q \in {r \in shorter : Len(r) = n - 1}, x \in S}

\* What the target does with one request:
\*   post   the exception session.post raises before a status arrives, or "none"
\*   status the HTTP status
\*   lines  the lines the streamed body delivers
\*   body   the JSON body of a non-streaming reply
\*   tail   the exception the body read raises after `lines`, or "none"
Reply(post, status, lines, body, tail) ==
    [post |-> post, status |-> status, lines |-> lines, body |-> body, tail |-> tail]

\* statuses other than 200 a target answers with (204 is a success status too)
ErrorStatuses == {204, 404, 500}

\* A reply is a failed connection, an error status, a stream of lines that may
\* break off, or one JSON document (which a line reader sees as one line that
\* has neither `content` nor `response`).
Responses ==
    {Reply(e, HttpOk, << >>, "bad", "none") : e \in {"TimeoutError", "ClientError"}}
    \cup {Reply("none", st, ls, "text1", t) :
            st \in ErrorStatuses, ls \in {<< "garbage" >>, << "tok" >>},
            t \in {"none", "ClientError"}}
    \cup {Reply("none", HttpOk, ls, "bad", t) :
            ls \in SeqsUpTo(LineKinds, MaxLines),
            t \in {"none", "TimeoutError", "ClientError"}}
    \cup {Reply("none", HttpOk, << "stop" >>, b, "none") : b \in BodyKinds \ {"bad"}}

\* ------------------------------------------------------- protocol adapter
KnownEngines == {"llama.cpp", "ollama", "vllm"}
Engines == KnownEngines \cup {"tgi"}

_build_request(eng, prompt) ==
    CASE eng = "llama.cpp" -> [raised |-> "none", path |-> "/completion", stream |-> TRUE]
      [] eng = "ollama" -> [raised |-> "none", path |-> "/api/generate", stream |-> TRUE]
      [] eng = "vllm" -> [raised |-> "none", path |-> "/v1/completions", stream |-> FALSE]
      [] OTHER -> [raised |-> "ValueError", path |-> "", stream |-> FALSE]

LlamaLineCountsEveryLine(l) == 1

\* tokens added by one line of a llama.cpp stream
LlamaLineTokens(l) == IF JsonOk(l) /\ HasContent(l) THEN 1 ELSE 0

OllamaLineOneToken(l) == IF JsonOk(l) /\ HasResponse(l) THEN 1 ELSE 0

\* tokens added by one line of an ollama stream
OllamaLineTokens(l) ==
    IF JsonOk(l) /\ HasResponse(l) /\ ResponseIsStr(l) THEN Words(l) ELSE 0

RECURSIVE StreamTokensUntilStop(_, _)
StreamTokensUntilStop(eng, lines) ==
    IF lines = << >> THEN 0
    ELSE (IF eng = "llama.cpp" THEN LlamaLineTokens(Head(lines))
          ELSE OllamaLineTokens(Head(lines)))
         + (IF eng = "llama.cpp" /\ HasStop(Head(lines)) THEN 0
            ELSE StreamTokensUntilStop(eng, Tail(lines)))

\* `tokens` after the `async for` loop has read every line of the stream
RECURSIVE StreamTokens(_, _)
StreamTokens(eng, lines) ==
    IF lines = << >> THEN 0
    ELSE (IF eng = "llama.cpp" THEN LlamaLineTokens(Head(lines))
          ELSE OllamaLineTokens(Head(lines)))
         + StreamTokens(eng, Tail(lines))

\* ------------------------------------------------------------- the prober
FailedSampleWithoutError(total, err) ==
    [ttft |-> None, total_time |-> total, tokens |-> 0, success |-> FALSE,
     error |-> "None"]

\* the dict of a failed request: lines 79-85, 138-144, 146-152
FailedSample(total, err) ==
    [ttft |-> None, total_time |-> total, tokens |-> 0, success |-> FALSE, error |-> err]

TtftOrZero(ttft, total) == IF ttft = None THEN 0 ELSE ttft[1]

\* if ttft is None: ttft = total_time
TtftOrTotal(ttft, total) == IF ttft = None THEN total ELSE ttft[1]

SuccessSampleNoFallback(ttft, total, tokens) ==
    [ttft |-> Some(TtftOrTotal(ttft, total)),
     total_time |-> total, tokens |-> tokens, success |-> TRUE, error |-> "None"]

SuccessSample(ttft, total, tokens) ==
    [ttft |-> Some(TtftOrTotal(ttft, total)),
     total_time |-> total,
     tokens |-> IF tokens > 0 THEN tokens ELSE FallbackTokens,
     success |-> TRUE, error |-> "None"]

HttpErrorWithoutStatus(status) == "HTTP error"

\* f"HTTP {response.status}"
HttpError(status) == "HTTP " \o ToString(status)

Returned(s) == [raised |-> "none", sample |-> s]
Raised(e) == [raised |-> e, sample |-> FailedSample(0, e)]

BodyTtftIsTotal(tfirst, total) == total

\* ttft of a non-streaming reply: the clock read that follows
\* `await response.json()`, taken before the tokens are extracted, the
\* response is released and total_time is read
BodyTtft(tfirst, total) == tfirst

\* The body of the try block.  tfirst is the time from start to the first
\* line of the stream (to the parsed body when not streaming), total the time
\* from start to the end of the request, both in du.
TryBlock(eng, resp, tfirst, total) ==
    LET req == _build_request(eng, 0)
    IN  IF req.raised # "none" THEN Raised(req.raised)
        ELSE IF resp.post # "none" THEN Raised(resp.post)
        ELSE IF resp.status # HttpOk
             THEN Returned(FailedSample(total, HttpError(resp.status)))
        ELSE IF req.stream
             THEN IF resp.tail # "none" THEN Raised(resp.tail)
                  ELSE Returned(SuccessSample(
                           IF resp.lines = << >> THEN None ELSE Some(tfirst),
                           total, StreamTokens(eng, resp.lines)))
        ELSE IF resp.body = "bad" THEN Raised("JSONDecodeError")
        ELSE IF resp.body = "empty" THEN Raised("IndexError")
        ELSE Returned(SuccessSample(Some(BodyTtft(tfirst, total)), total,
                          IF resp.body = "nochoices" THEN 0 ELSE BodyWords(resp.body)))

\* `except Exception` catches every class that derives from Exception.
CaughtOnlyClientError(e) == e = "ClientError"
CaughtByExcept(e) == e \in ExceptionClasses

MeasureWithoutTimeoutClause(eng, resp, tfirst, total) ==
    LET r == TryBlock(eng, resp, tfirst, total)
    IN  IF r.raised = "none" THEN r
        ELSE IF CaughtByExcept(r.raised) THEN Returned(FailedSample(total, r.raised))
        ELSE r

measure_single_request(eng, resp, tfirst, total) ==
    LET r == TryBlock(eng, resp, tfirst, total)
    IN  IF r.raised = "none" THEN r
        ELSE IF r.raised = "TimeoutError" THEN Returned(FailedSample(total, "Timeout"))
        ELSE IF CaughtByExcept(r.raised) THEN Returned(FailedSample(total, r.raised))
        ELSE r

\* --------------------------------------------------------- the aggregator
RECURSIVE Gcd(_, _)
Gcd(a, b) == IF b = 0 THEN a ELSE Gcd(b, a % b)

\* The quotient n / d (d > 0) in lowest terms, as <<numerator, denominator>>.
Frac(n, d) == LET g == Gcd(n, d) IN << n \div g, d \div g >>
One == << 1, 1 >>
Zero == << 0, 1 >>
FracLeq(x, y) == x[1] * y[2] <= y[1] * x[2]

RoundAlwaysUp(num, den) == (num \div den) + 1

\* round(): the integer nearest to num / den (num >= 0, den > 0), ties to even.
RoundHalfEven(num, den) ==
    LET q == num \div den
        r == num % den
    IN  IF 2 * r < den THEN q
        ELSE IF 2 * r > den THEN q + 1
        ELSE IF q % 2 = 0 THEN q ELSE q + 1

RECURSIVE Pow10(_)
Pow10(n) == IF n = 0 THEN 1 ELSE 10 * Pow10(n - 1)

\* du per rounding step of round(x, TtftDecimals), x in seconds
RoundStep == (1000 * SubMs) \div Pow10(TtftDecimals)

RECURSIVE SumTokens(_)
SumTokens(rs) == IF rs = << >> THEN 0 ELSE Head(rs).tokens + SumTokens(Tail(rs))

percentileNearestRank(data, p) ==
    IF data = << >> THEN 0 ELSE data[(((Len(data) - 1) * p) \div 100) + 1] * 100

\* percentile(data, p) of the sorted data, times 100 (k = (n-1)*p/100 exactly)
percentile100(data, p) ==
    IF data = << >> THEN 0
    ELSE LET n == Len(data)
             k100 == (n - 1) * p
             f == k100 \div 100
             c == IF f < n - 1 THEN f + 1 ELSE f
         IN  data[f + 1] * 100 + (k100 - 100 * f) * (data[c + 1] - data[f + 1])

\* round(percentile(ttfts, p), 3), in du
RoundedPercentile(data, p) == RoundStep * RoundHalfEven(percentile100(data, p), 100 * RoundStep)

UnsortedTtfts(successful) == [i \in 1 .. Len(successful) |-> successful[i].ttft[1]]

\* ttfts = [r['ttft'] for r in successful]; ttfts.sort()
SortedTtfts(successful) ==
    SortSeq([i \in 1 .. Len(successful) |-> successful[i].ttft[1]], LAMBDA a, b : a < b)

ZeroResultNoError(nfailed) ==
    [successful_requests |-> 0, failed_requests |-> nfailed,
     ttft_p50 |-> 0, ttft_p95 |-> 0, ttft_p99 |-> 0,
     tokens_per_sec |-> 0, total_tokens |-> 0, error_rate |-> Zero]

\* the record returned when no Sample is a success
ZeroResult(nfailed) ==
    [successful_requests |-> 0, failed_requests |-> nfailed,
     ttft_p50 |-> 0, ttft_p95 |-> 0, ttft_p99 |-> 0,
     tokens_per_sec |-> 0, total_tokens |-> 0, error_rate |-> One]

\* error_rate of the general branch: len(failed) / len(results) if results else 0
ErrorRateOverSuccessful(nfailed, total) ==
    IF total > nfailed THEN Frac(nfailed, total - nfailed) ELSE Zero
ErrorRate(nfailed, total) == IF total > 0 THEN Frac(nfailed, total) ELSE Zero

TokensPerSecInverted(total_tokens, duration) ==
    IF duration > 0 /\ total_tokens > 0
    THEN RoundHalfEven(duration * Pow10(TpsDecimals), total_tokens) ELSE 0

\* round(total_tokens / duration if duration > 0 else 0, 1), in units of
\* 10^-TpsDecimals tokens per second
TokensPerSec(total_tokens, duration) ==
    IF duration > 0 THEN RoundHalfEven(total_tokens * Pow10(TpsDecimals), duration) ELSE 0

_aggregate_results(rs, duration) ==
    LET successful == SelectSeq(rs, LAMBDA r : r.success)
        failed == SelectSeq(rs, LAMBDA r : ~r.success)
        ttfts == SortedTtfts(successful)
        total_tokens == SumTokens(successful)
    IN  IF successful = << >> THEN ZeroResult(Len(failed))
        ELSE [successful_requests |-> Len(successful),
              failed_requests |-> Len(failed),
              ttft_p50 |-> RoundedPercentile(ttfts, 50),
              ttft_p95 |-> RoundedPercentile(ttfts, 95),
              ttft_p99 |-> RoundedPercentile(ttfts, 99),
              tokens_per_sec |-> TokensPerSec(total_tokens, duration),
              total_tokens |-> total_tokens,
              error_rate |-> ErrorRate(Len(failed), Len(rs))]

\* ------------------------------------------------------------------ state
VARIABLES
    engine,      \* self.engine
    duration,    \* `duration` of the run, in seconds (ticks)
    latency,     \* ticks a target of constant latency takes to answer; 0: any time
    now,         \* the clock, in ticks
    cur,         \* the worker task that holds the event loop, 0 when none does
    main_pc,     \* where run_real_benchmark is
    session,     \* self.session: "none", "open", "closed"
    h_resp,      \* what the health request met
    start_time,  \* start_time of run_concurrent_benchmark
    wpc,         \* where each worker task is
    prompt_idx,  \* each worker's prompt_idx
    req_start,   \* start_time of each worker's measure_single_request
    req_prompt,  \* index of the prompt of each worker's last request
    pending,     \* what each worker's awaited measure_single_request produced
    inflight,    \* requests of each worker that are open at the target
    results,     \* the shared `results` list
    ret,         \* what run_real_benchmark returned
    issued,      \* history: number of prober calls each worker made
    posts,       \* history: number of generation requests sent
    p_eng, p_resp, p_tfirst, p_ttoken, p_total, p_out,   \* one prober call on its own
    a_in, a_dur, a_out,                         \* one aggregator call on its own
    sw_engines,    \* self.engines of the BenchmarkRunner
    sw_levels,     \* self.concurrency_levels
    sw_pc,         \* where the sweep is
    sw_raised,     \* the exception that ended it, or "none"
    sw_attempted,  \* history: the (engine, concurrency) trials attempted
    sw_benchmarks  \* results['benchmarks']

run_vars == << engine, duration, latency,
               now, cur, main_pc, session, h_resp, start_time, wpc, prompt_idx,
               req_start, req_prompt, pending, inflight, results, ret, issued, posts >>
probe_vars == << p_eng, p_resp, p_tfirst, p_ttoken, p_total, p_out >>
agg_vars == << a_in, a_dur, a_out >>
sweep_vars == << sw_engines, sw_levels, sw_pc, sw_raised, sw_attempted, sw_benchmarks >>
vars == << run_vars, probe_vars, agg_vars, sweep_vars >>

\* the reply of a request that was never sent
NoReply == Reply("none", HttpOk, << >>, "bad", "none")
NoSample == FailedSample(0, "unset")
NoOutcome == Returned(NoSample)
NoResponse == [exc |-> "none", status |-> 0]
NotReturned == [kind |-> "running", value |-> ZeroResult(0)]
ReturnedNone == [kind |-> "None", value |-> ZeroResult(0)]
ReturnedResult(r) == [kind |-> "result", value |-> r]
RaisedOut == [kind |-> "raised", value |-> ZeroResult(0)]
\* CancelledError or KeyboardInterrupt left run_real_benchmark
CancelledOut == [kind |-> "cancelled", value |-> ZeroResult(0)]

RunIdle ==
    /\ engine = "llama.cpp" /\ duration = 0 /\ latency = 0
    /\ now = 0 /\ cur = 0 /\ main_pc = "off"
    /\ session = "none" /\ h_resp = NoResponse /\ start_time = 0
    /\ wpc = [w \in Workers |-> "none"]
    /\ prompt_idx = [w \in Workers |-> 0]
    /\ req_start = [w \in Workers |-> 0]
    /\ req_prompt = [w \in Workers |-> 0]
    /\ pending = [w \in Workers |-> NoOutcome]
    /\ inflight = [w \in Workers |-> 0]
    /\ results = << >> /\ ret = NotReturned
    /\ issued = [w \in Workers |-> 0] /\ posts = 0

ProbeIdle ==
    /\ p_eng = "llama.cpp" /\ p_tfirst = 0 /\ p_ttoken = 0 /\ p_total = 0
    /\ p_out = << >>
    /\ p_resp = NoReply

AggIdle == a_in = << >> /\ a_dur = 0 /\ a_out = << >>
SweepIdle ==
    /\ sw_engines = << >> /\ sw_levels = << >> /\ sw_pc = "off"
    /\ sw_raised = "none" /\ sw_attempted = << >> /\ sw_benchmarks = << >>

\* --------------------------------------------- run_real_benchmark: the run
Init ==
    /\ engine \in Engines
    /\ duration = Duration /\ latency = 0
    /\ now = ClockOrigin /\ cur = 0 /\ main_pc = "enter"
    /\ session = "none" /\ h_resp = NoResponse /\ start_time = 0
    /\ wpc = [w \in Workers |-> "none"]
    /\ prompt_idx = [w \in Workers |-> 0]
    /\ req_start = [w \in Workers |-> 0]
    /\ req_prompt = [w \in Workers |-> 0]
    /\ pending = [w \in Workers |-> NoOutcome]
    /\ inflight = [w \in Workers |-> 0]
    /\ results = << >> /\ ret = NotReturned
    /\ issued = [w \in Workers |-> 0] /\ posts = 0
    /\ ProbeIdle /\ AggIdle /\ SweepIdle

health_endpoint(eng) == IF eng = "ollama" THEN "/api/tags" ELSE "/health"

\* health_check: True only for a reply with status 200; any exception is caught
HealthIgnoresStatus(h) == h.exc = "none"
health_check(h) == IF h.exc # "none" THEN FALSE ELSE h.status = HttpOk

\* time.time() - start_time < duration
DeadlineIgnoresStart(t, start, d) == t < d
DeadlineInclusive(t, start, d) == t - start <= d
BeforeDeadline(t, start, d) == t - start < d

\* async with RealBenchmarkEngine(...) as bench; bench.health_check() sends its GET
Enter ==
    /\ main_pc = "enter"
    /\ session' = "open"
    /\ main_pc' = "health"
    /\ UNCHANGED << engine, duration, latency,
                    now, cur, h_resp, start_time, wpc, prompt_idx, req_start,
                    req_prompt, pending, inflight, results, ret, issued, posts,
                    probe_vars, agg_vars, sweep_vars >>

\* the health request ends: a reply, a connection error, or its timeout
HealthRespond ==
    /\ main_pc = "health"
    /\ h_resp' \in [exc : {"none", "ClientError", "TimeoutError"}, status : {HttpOk, 503}]
    /\ main_pc' = "health_done"
    /\ UNCHANGED << engine, duration, latency,
                    now, cur, session, start_time, wpc, prompt_idx, req_start,
                    req_prompt, pending, inflight, results, ret, issued, posts,
                    probe_vars, agg_vars, sweep_vars >>

UnavailableLeavingSessionOpen ==
    /\ main_pc = "health_done"
    /\ ~health_check(h_resp)
    /\ ret' = ReturnedNone
    /\ main_pc' = "done"
    /\ UNCHANGED << engine, duration, latency,
                    now, cur, session, h_resp, start_time, wpc, prompt_idx, req_start,
                    req_prompt, pending, inflight, results, issued, posts,
                    probe_vars, agg_vars, sweep_vars >>

\* if not healthy: return None (and __aexit__ closes the session)
Unavailable ==
    /\ main_pc = "health_done"
    /\ ~health_check(h_resp)
    /\ ret' = ReturnedNone
    /\ session' = "closed"
    /\ main_pc' = "done"
    /\ UNCHANGED << engine, duration, latency,
                    now, cur, h_resp, start_time, wpc, prompt_idx, req_start,
                    req_prompt, pending, inflight, results, issued, posts,
                    probe_vars, agg_vars, sweep_vars >>

\* run_concurrent_benchmark up to its gather: results = [], start_time, the tasks
Launch ==
    /\ main_pc = "health_done"
    /\ health_check(h_resp)
    /\ results' = << >>
    /\ start_time' = now
    /\ wpc' = [w \in Workers |-> "ready"]
    /\ main_pc' = "gather"
    /\ UNCHANGED << engine, duration, latency,
                    now, cur, session, h_resp, prompt_idx, req_start, req_prompt,
                    pending, inflight, ret, issued, posts, probe_vars, agg_vars, sweep_vars >>

\* -------------------------------------- run_concurrent_benchmark: a worker
PromptIndexWithoutWrap(idx) == idx

\* prompts[prompt_idx % len(prompts)]
PromptIndex(idx) == idx % NumPrompts

\* where the worker is after measure_single_request has sent its request:
\* suspended in `await` until the prober returns
PcNotAwaited == "looptop"
PcAfterPost == "inflight"

\* results.append(result)
AppendOverwriting(rs, s) == IF rs = << >> THEN << s >> ELSE [rs EXCEPT ![Len(rs)] = s]
AppendSample(rs, s) == Append(rs, s)

\* prompt_idx += 1, after every Sample
RetryOnFailure(idx, s) == IF s.success THEN idx + 1 ELSE idx
NextPromptIdx(idx, s) == idx + 1

\* the request's timeout (timeout=30) has run out
TimeoutNever(elapsed) == FALSE
TimeoutDoubled(elapsed) == elapsed >= 2 * TimeoutTicks
TimeoutDue(elapsed) == elapsed >= TimeoutTicks

\* The time passes.  Only the steps that read the clock are modelled with it:
\* the time passes while the deadline lies ahead or a request is open, and it
\* does not pass an open request's timeout without the timeout firing.  The
\* clock is not followed further than one tick past duration + timeout.
Tick ==
    /\ main_pc = "gather"
    /\ \/ BeforeDeadline(now, start_time, duration)
       \/ \E w \in Workers : inflight[w] > 0
    /\ \A w \in Workers : inflight[w] > 0 => ~TimeoutDue(now - req_start[w])
    /\ now - start_time <= duration + TimeoutTicks
    /\ now' = now + 1
    /\ UNCHANGED << engine, duration, latency,
                    cur, main_pc, session, h_resp, start_time, wpc, prompt_idx,
                    req_start, req_prompt, pending, inflight, results, ret, issued,
                    posts, probe_vars, agg_vars, sweep_vars >>

\* The replies a target gives during a run: a completion in the protocol of
\* the engine kind, an error status, a failed connection.
Completion(eng) ==
    IF _build_request(eng, 0).stream
    THEN Reply("none", HttpOk, << "tok", "resp1" >>, "bad", "none")
    ELSE Reply("none", HttpOk, << "stop" >>, "text1", "none")
RunResponses(eng) ==
    {Completion(eng),
     Reply("none", 500, << "garbage" >>, "bad", "none"),
     Reply("ClientError", HttpOk, << >>, "bad", "none")}
TimeoutResponses == {Reply("TimeoutError", HttpOk, << >>, "bad", "none")}

RECURSIVE SumUpTo(_, _)
SumUpTo(f, n) == IF n = 0 THEN 0 ELSE f[n] + SumUpTo(f, n - 1)

\* the prober calls made so far in the run
Issued == SumUpTo(issued, NumWorkers)

ScheduleWithOwnStart(w) ==
    /\ cur = 0
    /\ wpc[w] = "ready"
    /\ cur' = w
    /\ wpc' = [wpc EXCEPT ![w] = "looptop"]
    /\ start_time' = now
    /\ UNCHANGED << engine, duration, latency,
                    now, main_pc, session, h_resp, prompt_idx,
                    req_start, req_prompt, pending, inflight, results, ret, issued,
                    posts, probe_vars, agg_vars, sweep_vars >>

\* the event loop runs a worker task for the first time
Schedule(w) ==
    /\ cur = 0
    /\ wpc[w] = "ready"
    /\ cur' = w
    /\ wpc' = [wpc EXCEPT ![w] = "looptop"]
    /\ UNCHANGED << engine, duration, latency,
                    now, main_pc, session, h_resp, start_time, prompt_idx,
                    req_start, req_prompt, pending, inflight, results, ret, issued,
                    posts, probe_vars, agg_vars, sweep_vars >>

\* while time.time() - start_time < duration: false
LoopExit(w) ==
    /\ cur = w /\ wpc[w] = "looptop"
    /\ ~BeforeDeadline(now, start_time, duration)
    /\ wpc' = [wpc EXCEPT ![w] = "exited"]
    /\ cur' = 0
    /\ UNCHANGED << engine, duration, latency,
                    now, main_pc, session, h_resp, start_time, prompt_idx,
                    req_start, req_prompt, pending, inflight, results, ret, issued,
                    posts, probe_vars, agg_vars, sweep_vars >>

\* the loop body up to the suspension in session.post (MaxReq caps the
\* requests of a run whose target may answer at once; a target of constant
\* latency bounds them by itself)
Issue(w) ==
    /\ cur = w /\ wpc[w] = "looptop"
    /\ BeforeDeadline(now, start_time, duration)
    /\ latency > 0 \/ Issued < MaxReq
    /\ _build_request(engine, PromptIndex(prompt_idx[w])).raised = "none"
    /\ req_prompt' = [req_prompt EXCEPT ![w] = PromptIndex(prompt_idx[w])]
    /\ req_start' = [req_start EXCEPT ![w] = now]
    /\ issued' = [issued EXCEPT ![w] = @ + 1]
    /\ posts' = posts + 1
    /\ inflight' = [inflight EXCEPT ![w] = @ + 1]
    /\ wpc' = [wpc EXCEPT ![w] = PcAfterPost]
    /\ cur' = IF PcAfterPost = "inflight" THEN 0 ELSE cur
    /\ UNCHANGED << engine, duration, latency,
                    now, main_pc, session, h_resp, start_time, prompt_idx,
                    pending, results, ret, probe_vars, agg_vars, sweep_vars >>

\* the loop body when _build_request raises: the prober returns without
\* suspending, so the worker keeps the event loop
IssueNoRequest(w) ==
    /\ cur = w /\ wpc[w] = "looptop"
    /\ BeforeDeadline(now, start_time, duration)
    /\ Issued < MaxReq
    /\ _build_request(engine, PromptIndex(prompt_idx[w])).raised # "none"
    /\ req_prompt' = [req_prompt EXCEPT ![w] = PromptIndex(prompt_idx[w])]
    /\ req_start' = [req_start EXCEPT ![w] = now]
    /\ issued' = [issued EXCEPT ![w] = @ + 1]
    /\ pending' = [pending EXCEPT
                     ![w] = measure_single_request(engine, NoReply, 0, 0)]
    /\ wpc' = [wpc EXCEPT ![w] = "append"]
    /\ UNCHANGED << engine, duration, latency,
                    now, cur, main_pc, session, h_resp, start_time, prompt_idx,
                    inflight, results, ret, posts, probe_vars, agg_vars, sweep_vars >>

\* the target answers (or the connection fails) before the timeout
Respond(w) ==
    /\ inflight[w] > 0
    /\ ~TimeoutDue(now - req_start[w])
    /\ \E r \in RunResponses(engine) :
          LET total == (now - req_start[w]) * TickDu
          IN  pending' = [pending EXCEPT
                            ![w] = measure_single_request(engine, r, total, total)]
    /\ inflight' = [inflight EXCEPT ![w] = @ - 1]
    /\ wpc' = [wpc EXCEPT ![w] = IF @ = "inflight" THEN "resumable" ELSE @]
    /\ UNCHANGED << engine, duration, latency,
                    now, cur, main_pc, session, h_resp, start_time, prompt_idx,
                    req_start, req_prompt, results, ret, issued, posts,
                    probe_vars, agg_vars, sweep_vars >>

\* the request's timeout fires
RequestTimeout(w) ==
    /\ inflight[w] > 0
    /\ TimeoutDue(now - req_start[w])
    /\ \E r \in TimeoutResponses :
          LET total == (now - req_start[w]) * TickDu
          IN  pending' = [pending EXCEPT
                            ![w] = measure_single_request(engine, r, total, total)]
    /\ inflight' = [inflight EXCEPT ![w] = @ - 1]
    /\ wpc' = [wpc EXCEPT ![w] = IF @ = "inflight" THEN "resumable" ELSE @]
    /\ UNCHANGED << engine, duration, latency,
                    now, cur, main_pc, session, h_resp, start_time, prompt_idx,
                    req_start, req_prompt, results, ret, issued, posts,
                    probe_vars, agg_vars, sweep_vars >>

\* the prober has returned and the worker runs again (it was suspended, or it
\* never gave up the event loop): results.append(result); prompt_idx += 1.
\* An exception out of the prober would end the worker task instead.
Collect(w) ==
    /\ \/ cur = w /\ wpc[w] = "append"
       \/ cur = 0 /\ wpc[w] = "resumable"
    /\ IF pending[w].raised = "none"
       THEN /\ results' = AppendSample(results, pending[w].sample)
            /\ prompt_idx' = [prompt_idx EXCEPT ![w] = NextPromptIdx(@, pending[w].sample)]
            /\ wpc' = [wpc EXCEPT ![w] = "looptop"]
            /\ cur' = w
       ELSE /\ wpc' = [wpc EXCEPT ![w] = "crashed"]
            /\ cur' = 0
            /\ UNCHANGED << results, prompt_idx >>
    /\ pending' = [pending EXCEPT ![w] = NoOutcome]
    /\ req_start' = [req_start EXCEPT ![w] = 0]
    /\ req_prompt' = [req_prompt EXCEPT ![w] = 0]
    /\ UNCHANGED << engine, duration, latency,
                    now, main_pc, session, h_resp, start_time, inflight, ret,
                    issued, posts, probe_vars, agg_vars, sweep_vars >>

GatherOverElapsed ==
    /\ main_pc = "gather" /\ cur = 0
    /\ \A w \in Workers : wpc[w] \in {"exited", "crashed"}
    /\ ret' = IF \E w \in Workers : wpc[w] = "crashed" THEN RaisedOut
              ELSE ReturnedResult(_aggregate_results(results, now - start_time))
    /\ session' = "closed"
    /\ main_pc' = "done"
    /\ UNCHANGED << engine, duration, latency,
                    now, cur, h_resp, start_time, wpc, prompt_idx, req_start,
                    req_prompt, pending, inflight, results, issued, posts,
                    probe_vars, agg_vars, sweep_vars >>

GatherFirstCompleted ==
    /\ main_pc = "gather" /\ cur = 0
    /\ \E w \in Workers : wpc[w] \in {"exited", "crashed"}
    /\ ret' = ReturnedResult(_aggregate_results(results, duration))
    /\ session' = "closed"
    /\ main_pc' = "done"
    /\ UNCHANGED << engine, duration, latency,
                    now, cur, h_resp, start_time, wpc, prompt_idx, req_start,
                    req_prompt, pending, inflight, results, issued, posts,
                    probe_vars, agg_vars, sweep_vars >>

\* await asyncio.gather(*workers) returns; return self._aggregate_results(...)
\* (gather re-raises what a worker task raised); __aexit__ closes the session
Gather ==
    /\ main_pc = "gather" /\ cur = 0
    /\ \A w \in Workers : wpc[w] \in {"exited", "crashed"}
    /\ ret' = IF \E w \in Workers : wpc[w] = "crashed" THEN RaisedOut
              ELSE ReturnedResult(_aggregate_results(results, duration))
    /\ session' = "closed"
    /\ main_pc' = "done"
    /\ UNCHANGED << engine, duration, latency,
                    now, cur, h_resp, start_time, wpc, prompt_idx, req_start,
                    req_prompt, pending, inflight, results, issued, posts,
                    probe_vars, agg_vars, sweep_vars >>

WorkerStep(w) ==
    \/ Schedule(w) \/ LoopExit(w) \/ Issue(w) \/ IssueNoRequest(w) \/ Collect(w)

Next ==
    \/ Tick \/ Enter \/ HealthRespond \/ Unavailable \/ Launch \/ Gather
    \/ \E w \in Workers : WorkerStep(w)
    \/ \E w \in Workers : Respond(w)
    \/ \E w \in Workers : RequestTimeout(w)

Spec == Init /\ [][Next]_vars

\* Every step but the target's answer.
Progress ==
    \/ Tick \/ Enter \/ HealthRespond \/ Unavailable \/ Launch \/ Gather
    \/ \E w \in Workers : WorkerStep(w)
    \/ \E w \in Workers : RequestTimeout(w)

\* What the event loop and the clock guarantee: the program does not stop
\* while the time can pass, a task can run or a timeout is due.  Nothing is
\* assumed of the target: it may never answer a request.
Fairness == WF_vars(Progress)

FairSpec == Spec /\ Fairness

\* ------------------------------- a run against a target of constant latency
\* The target is healthy or not, and answers every generation request with a
\* completion exactly `latency` ticks after the request was sent, well within
\* the request's timeout.  The steps of the program itself take no time: the
\* time passes only while every worker that is left waits for its reply.
SteadyInit ==
    /\ engine \in KnownEngines
    /\ duration \in 1 .. MaxSteadyDuration /\ latency \in 1 .. MaxLatency
    /\ now = ClockOrigin /\ cur = 0 /\ main_pc = "enter"
    /\ session = "none" /\ h_resp = NoResponse /\ start_time = 0
    /\ wpc = [w \in Workers |-> "none"]
    /\ prompt_idx = [w \in Workers |-> 0]
    /\ req_start = [w \in Workers |-> 0]
    /\ req_prompt = [w \in Workers |-> 0]
    /\ pending = [w \in Workers |-> NoOutcome]
    /\ inflight = [w \in Workers |-> 0]
    /\ results = << >> /\ ret = NotReturned
    /\ issued = [w \in Workers |-> 0] /\ posts = 0
    /\ ProbeIdle /\ AggIdle /\ SweepIdle

\* when the first line of the reply arrives: half-way for a stream, with the
\* whole body otherwise
SteadyTtft(eng, total) == IF _build_request(eng, 0).stream THEN total \div 2 ELSE total

SteadyTick ==
    /\ main_pc = "gather" /\ cur = 0
    /\ \A w \in Workers : wpc[w] \in {"inflight", "exited"}
    /\ \E w \in Workers : inflight[w] > 0
    /\ \A w \in Workers : inflight[w] > 0 => now - req_start[w] < latency
    /\ now' = now + 1
    /\ UNCHANGED << engine, duration, latency, cur, main_pc, session, h_resp, start_time,
                    wpc, prompt_idx, req_start, req_prompt, pending, inflight, results,
                    ret, issued, posts, probe_vars, agg_vars, sweep_vars >>

SteadyRespond(w) ==
    /\ inflight[w] > 0
    /\ now - req_start[w] = latency
    /\ LET total == (now - req_start[w]) * TickDu
       IN  pending' = [pending EXCEPT
                         ![w] = measure_single_request(engine, Completion(engine),
                                                       SteadyTtft(engine, total), total)]
    /\ inflight' = [inflight EXCEPT ![w] = @ - 1]
    /\ wpc' = [wpc EXCEPT ![w] = IF @ = "inflight" THEN "resumable" ELSE @]
    /\ UNCHANGED << engine, duration, latency, now, cur, main_pc, session, h_resp,
                    start_time, prompt_idx, req_start, req_prompt, results, ret, issued,
                    posts, probe_vars, agg_vars, sweep_vars >>

SteadyNext ==
    \/ SteadyTick \/ Enter \/ HealthRespond \/ Unavailable \/ Launch \/ Gather
    \/ \E w \in Workers : Schedule(w)
    \/ \E w \in Workers : LoopExit(w)
    \/ \E w \in Workers : Issue(w)
    \/ \E w \in Workers : Collect(w)
    \/ \E w \in Workers : SteadyRespond(w)

SpecSteady == SteadyInit /\ [][SteadyNext]_vars

\* ------------------------------------------ a run interrupted from outside
\* The caller cancels the task (or the process is interrupted) while
\* run_concurrent_benchmark awaits its gather.  CancelledError and
\* KeyboardInterrupt are BaseExceptions: no `except Exception` catches them and
\* run_concurrent_benchmark has no handler of its own, so the exception leaves
\* gather, the local `results` list goes out of scope unaggregated, the worker
\* tasks are cancelled at their awaits and __aexit__ closes the session.
Interrupt ==
    /\ main_pc = "gather"
    /\ \E w \in Workers : wpc[w] \notin {"exited", "crashed"}
    /\ ret' = CancelledOut
    /\ wpc' = [w \in Workers |-> IF wpc[w] \in {"exited", "crashed"} THEN wpc[w]
                                  ELSE "cancelled"]
    /\ inflight' = [w \in Workers |-> 0]
    /\ pending' = [w \in Workers |-> NoOutcome]
    /\ req_start' = [w \in Workers |-> 0]
    /\ req_prompt' = [w \in Workers |-> 0]
    /\ cur' = 0
    /\ session' = "closed"
    /\ main_pc' = "done"
    /\ UNCHANGED << engine, duration, latency,
                    now, h_resp, start_time, prompt_idx, results, issued, posts,
                    probe_vars, agg_vars, sweep_vars >>

NextInterruptible == Next \/ Interrupt

SpecInterruptible == Init /\ [][NextInterruptible]_vars

\* ------------------------------------------- one prober call, on its own
\* The lines of a stream that add to `tokens` under the engine's protocol.
TokenLines(eng, lines) ==
    {i \in 1 .. Len(lines) : StreamTokens(eng, << lines[i] >>) > 0}

\* When the first token-adding line of a reply can arrive: with the first
\* line if that is the one, no earlier than the first line and no later than
\* the end otherwise (at the end when there is none).
FirstTokenTimes(eng, resp, tfirst, total) ==
    IF TokenLines(eng, resp.lines) = {} THEN {total}
    ELSE IF 1 \in TokenLines(eng, resp.lines) THEN {tfirst}
    ELSE tfirst .. total

\* The prober is called once, on any engine kind, with any reply and timing;
\* p_out collects what the call returns.  p_tfirst is when the first line of
\* the body arrives, p_ttoken when the first line that adds a token does.
ProbeInit ==
    /\ RunIdle /\ AggIdle /\ SweepIdle
    /\ p_eng \in Engines
    /\ p_resp \in Responses
    /\ p_total \in 0 .. MaxDu
    /\ p_tfirst \in 0 .. p_total
    /\ p_ttoken \in FirstTokenTimes(p_eng, p_resp, p_tfirst, p_total)
    /\ p_out = << >>

Probe ==
    /\ p_out = << >>
    /\ p_out' = << measure_single_request(p_eng, p_resp, p_tfirst, p_total) >>
    /\ UNCHANGED << p_eng, p_resp, p_tfirst, p_ttoken, p_total, run_vars, agg_vars,
                    sweep_vars >>

ProbeNext == Probe

SpecProbe == ProbeInit /\ [][ProbeNext]_vars

\* --------------------------------------- one aggregator call, on its own
\* The Samples a prober call can return, with times up to MaxDu.
AggSamples ==
    {SuccessSample(Some(t), t, n) : t \in 0 .. MaxDu, n \in {1, FallbackTokens}}
    \cup {FailedSample(0, HttpError(500)), FailedSample(MaxDu, "Timeout")}

AggInit ==
    /\ RunIdle /\ ProbeIdle /\ SweepIdle
    /\ a_in \in SeqsUpTo(AggSamples, MaxSamples)
    /\ a_dur \in 0 .. MaxAggDuration
    /\ a_out = << >>

AggregateFilteringInPlace ==
    /\ Len(a_out) < 2
    /\ a_out' = Append(a_out, _aggregate_results(a_in, a_dur))
    /\ a_in' = SelectSeq(a_in, LAMBDA r : r.success)
    /\ UNCHANGED << a_dur, run_vars, probe_vars, sweep_vars >>

\* the aggregator is called on the list a_in, and once more on the same list;
\* it builds new lists (successful, failed, ttfts) and sorts only `ttfts`
Aggregate ==
    /\ Len(a_out) < 2
    /\ a_out' = Append(a_out, _aggregate_results(a_in, a_dur))
    /\ UNCHANGED << a_in, a_dur, run_vars, probe_vars, sweep_vars >>

AggNext == Aggregate

SpecAgg == AggInit /\ [][AggNext]_vars

\* ------------------------------------------- BenchmarkRunner: the sweep
\* What compiling src/benchmark_runner.py gives: `def _run_benchmark` (line
\* 194) is indented by three spaces inside a class body indented by four, so
\* the module is rejected with an IndentationError before any of it runs.
RunnerCompileOutcome == "IndentationError"

\* A sweep over some engines and concurrency levels is asked for.
SweepInit ==
    /\ RunIdle /\ ProbeIdle /\ AggIdle
    /\ sw_engines \in SeqsUpTo(Engines, MaxEngines)
    /\ sw_levels \in SeqsUpTo(1 .. MaxLevels, MaxLevels)
    /\ sw_pc = "import" /\ sw_raised = "none"
    /\ sw_attempted = << >> /\ sw_benchmarks = << >>

\* from benchmark_runner import BenchmarkRunner (llamabench.py, line 16): the
\* exception of the compilation leaves the import; BenchmarkRunner.run and
\* _run_benchmark (lines 118-180, 194-237) are never reached.
ImportRunner ==
    /\ sw_pc = "import"
    /\ sw_raised' = RunnerCompileOutcome
    /\ sw_pc' = IF RunnerCompileOutcome = "none" THEN "run" ELSE "raised"
    /\ UNCHANGED << sw_engines, sw_levels, sw_attempted, sw_benchmarks,
                    run_vars, probe_vars, agg_vars >>

SweepNext == ImportRunner

SpecSweep == SweepInit /\ [][SweepNext]_vars

\* ================================================================ claims
Outstanding(w) == wpc[w] \in {"inflight", "resumable", "append"}
Streaming(eng) == eng \in {"llama.cpp", "ollama"}
ProbeDone == p_out # << >>
AggDone == a_out # << >>
RunDone == main_pc = "done" /\ ret.kind = "result"

\* The failure modes of one prober call, read off its inputs.
BuildFails == p_eng \notin KnownEngines
ConnectionFails == p_resp.post = "ClientError" \/ (Streaming(p_eng) /\ p_resp.tail = "ClientError")
TimesOut == p_resp.post = "TimeoutError" \/ (Streaming(p_eng) /\ p_resp.tail = "TimeoutError")
ErrorStatus == p_resp.post = "none" /\ p_resp.status # HttpOk
\* a 200 reply no part of which can be read under the engine's protocol
UnreadableStream ==
    /\ Streaming(p_eng) /\ p_resp.post = "none" /\ p_resp.status = HttpOk
    /\ p_resp.tail = "none" /\ p_resp.lines # << >>
    /\ \A i \in 1 .. Len(p_resp.lines) : ~JsonOk(p_resp.lines[i])
UnreadableBody ==
    /\ p_eng = "vllm" /\ p_resp.post = "none" /\ p_resp.status = HttpOk
    /\ p_resp.body \in {"bad", "empty"}

\* C1 as stated: every prober call returns one Sample and raises nothing, and a
\* non-200 status, a timeout, a transport failure, an uninterpretable body and
\* a failure to build the request each give a failed Sample.
C1_EveryFailureModeFails ==
    ProbeDone =>
        /\ Len(p_out) = 1 /\ p_out[1].raised = "none"
        /\ (BuildFails \/ ConnectionFails \/ TimesOut \/ ErrorStatus
              \/ UnreadableStream \/ UnreadableBody) => ~p_out[1].sample.success

\* C1 amended: every prober call returns one Sample and raises nothing; a
\* non-200 status, a timeout, a transport failure, a non-streaming body that is
\* not JSON or has no first choice, and a failure to build the request each
\* give a failed Sample; a streamed body none of whose lines parses gives a
\* successful Sample (its lines are skipped).
C1_ProberNeverRaises ==
    ProbeDone =>
        /\ Len(p_out) = 1 /\ p_out[1].raised = "none"
        /\ (BuildFails \/ ConnectionFails \/ TimesOut \/ ErrorStatus \/ UnreadableBody)
              => ~p_out[1].sample.success
        /\ (~BuildFails /\ UnreadableStream) => p_out[1].sample.success

C1_Witness ==
    /\ ProbeDone /\ UnreadableBody
    /\ p_out[1].raised = "none" /\ ~p_out[1].sample.success

\* C2: no lost updates.  Whatever the interleaving, every prober call a worker
\* made has put exactly one Sample in `results`: calls still awaited aside,
\* len(results) is the number of calls, worker by worker and in total, and
\* when the run has finished it is the sum of the calls the workers made.
C2_NoLostUpdates ==
    /\ Len(results) = SumUpTo(prompt_idx, NumWorkers)
    /\ \A w \in Workers : issued[w] = prompt_idx[w] + (IF Outstanding(w) THEN 1 ELSE 0)
    /\ RunDone => /\ Len(results) = Issued
                  /\ ret.value.successful_requests + ret.value.failed_requests = Issued

C2_Witness ==
    /\ RunDone /\ Len(results) = MaxReq
    /\ \A w \in Workers : issued[w] >= 1

\* C3: a request is started only by a worker at its loop top, on a check
\* now - start < duration made in that step; and a request that is open is
\* never dropped: its worker waits for it, whatever the clock, and leaves that
\* wait only by appending the request's Sample.
C3_DeadlineAtLoopTop ==
    [][\A w \in Workers :
          /\ issued'[w] # issued[w] =>
                /\ issued'[w] = issued[w] + 1
                /\ wpc[w] = "looptop" /\ cur = w
                /\ now - start_time < Duration
          /\ Outstanding(w) =>
                \/ Outstanding(w)' /\ issued'[w] = issued[w] /\ prompt_idx'[w] = prompt_idx[w]
                \/ wpc'[w] = "looptop" /\ results' = Append(results, pending[w].sample)
      ]_vars

\* a Sample of a request that was open for the whole run is in the result
C3_Witness ==
    /\ RunDone
    /\ \E i \in 1 .. Len(results) :
          results[i].success /\ results[i].total_time >= Duration * TickDu

\* C4: a failed Sample neither ends the run nor is retried.  The worker that
\* collects it appends it, moves its prompt counter on by one and is back at
\* its loop top, the other workers untouched; a worker at its loop top before
\* the deadline (and below the model's cap on requests) issues a request, and
\* every request is issued with prompts[prompt_idx % len(prompts)].
C4_FailureDoesNotStopWorker ==
    /\ [][\A w \in Workers :
            /\ (Outstanding(w) /\ ~Outstanding(w)' /\ ~pending[w].sample.success) =>
                  /\ results' = Append(results, pending[w].sample)
                  /\ prompt_idx'[w] = prompt_idx[w] + 1
                  /\ wpc'[w] = "looptop" /\ cur' = w
                  /\ \A v \in Workers \ {w} :
                        /\ wpc'[v] = wpc[v] /\ prompt_idx'[v] = prompt_idx[v]
                        /\ pending'[v] = pending[v] /\ inflight'[v] = inflight[v]
            /\ issued'[w] # issued[w] => req_prompt'[w] = prompt_idx[w] % NumPrompts
        ]_vars
    /\ [](\A w \in Workers :
            (wpc[w] = "looptop" /\ cur = w /\ now - start_time < Duration /\ Issued < MaxReq)
               => /\ ENABLED (Issue(w) \/ IssueNoRequest(w))
                  /\ ~ENABLED LoopExit(w))

\* a worker whose Samples all failed has a later request open, on the next prompt
C4_Witness ==
    \E w \in Workers :
        /\ prompt_idx[w] = 1 /\ wpc[w] = "inflight" /\ req_prompt[w] = 1 % NumPrompts
        /\ results # << >>
        /\ \A i \in 1 .. Len(results) : ~results[i].success

\* C5: the load generator cannot deadlock.  With the time passing, tasks being
\* run and every open request ended at the latest by its timeout, a run that
\* has started its workers ends: every worker exits and a RunResult is
\* returned, even if the target never answers.
C5_RunTerminates ==
    (main_pc = "gather") ~> (RunDone /\ \A w \in Workers : wpc[w] = "exited")

\* a run has ended although a request was never answered
C5_Witness ==
    /\ RunDone
    /\ \E i \in 1 .. Len(results) : results[i].error = "Timeout"

HealthOk == h_resp.exc = "none" /\ h_resp.status = HttpOk

\* C6: the health-check gate.  No worker exists and no generation request is
\* sent unless the health request returned status 200; when it did not, the
\* function returns None, raises nothing, and has started no worker, sent no
\* generation request and collected no Sample.
C6_HealthGate ==
    /\ (posts > 0 \/ Issued > 0 \/ main_pc = "gather" \/ \E w \in Workers : wpc[w] # "none")
          => (main_pc \in {"gather", "done"} /\ HealthOk)
    /\ (main_pc = "done" /\ ~HealthOk) =>
          /\ ret = ReturnedNone
          /\ posts = 0 /\ Issued = 0 /\ results = << >>
          /\ \A w \in Workers : wpc[w] = "none"
    /\ ret.kind # "raised"

C6_Witness ==
    /\ main_pc = "done" /\ ret = ReturnedNone
    /\ h_resp.exc = "none" /\ h_resp.status = 503

\* C7: a worker's requests are strictly sequential.  A worker has at most one
\* request open, it is suspended while that request is open, and never more
\* than `concurrency` requests are open.
C7_SequentialPerWorker ==
    /\ \A w \in Workers : inflight[w] <= 1 /\ (inflight[w] = 1 => wpc[w] = "inflight")
    /\ SumUpTo(inflight, NumWorkers) <= NumWorkers
    /\ posts <= Issued

\* every worker has a request open at once
C7_Witness == \A w \in Workers : inflight[w] = 1

AggSuccessful == Cardinality({i \in 1 .. Len(a_in) : a_in[i].success})
AggFailed == Cardinality({i \in 1 .. Len(a_in) : ~a_in[i].success})

\* C8: for a non-empty Sample sequence, successful_count + failed_count is
\* the number of samples, error_rate is in [0, 1], and error_rate is
\* failed_count / (successful_count + failed_count).
C8_CountsAndErrorRate ==
    (AggDone /\ a_in # << >>) =>
        LET r == a_out[1]
        IN  /\ r.successful_requests + r.failed_requests = Len(a_in)
            /\ r.successful_requests = AggSuccessful /\ r.failed_requests = AggFailed
            /\ FracLeq(Zero, r.error_rate) /\ FracLeq(r.error_rate, One)
            /\ r.error_rate = Frac(r.failed_requests,
                                   r.successful_requests + r.failed_requests)

\* successes and failures mixed
C8_Witness ==
    /\ AggDone /\ AggSuccessful >= 1 /\ AggFailed >= 2
    /\ a_out[1].error_rate = Frac(AggFailed, Len(a_in))

\* C9: with no successful Sample and at least one failed one, the RunResult
\* has ttft_p50, ttft_p95, ttft_p99, tokens_per_sec and total_tokens all 0,
\* failed_count the number of samples, and error_rate 1.0.
C9_AllFailed ==
    (AggDone /\ a_in # << >> /\ AggSuccessful = 0) =>
        LET r == a_out[1]
        IN  /\ r.ttft_p50 = 0 /\ r.ttft_p95 = 0 /\ r.ttft_p99 = 0
            /\ r.tokens_per_sec = 0 /\ r.total_tokens = 0
            /\ r.successful_requests = 0
            /\ r.failed_requests = Len(a_in)
            /\ r.error_rate = One

C9_Witness == AggDone /\ Len(a_in) = MaxSamples /\ AggSuccessful = 0

\* C10: aggregating the empty Sample sequence gives error_rate 0 (0/0 := 0).
C10_EmptyErrorRateZero ==
    (AggDone /\ a_in = << >>) => a_out[1].error_rate = Zero

\* C11: a run interrupted from outside while workers are active (and after
\* Samples were collected) hands its caller a RunResult aggregated from the
\* Samples collected so far.
C11_InterruptGivesPartialResult ==
    (main_pc = "done" /\ results # << >> /\ \E w \in Workers : wpc[w] = "cancelled")
        => ret = ReturnedResult(_aggregate_results(results, Duration))

\* A 200 reply, read to its end, in which the adapter finds no token event: a
\* stream whose lines add no token, a JSON body without usable text.
ZeroTokenStream ==
    /\ Streaming(p_eng) /\ p_resp.post = "none" /\ p_resp.status = HttpOk
    /\ p_resp.tail = "none" /\ StreamTokens(p_eng, p_resp.lines) = 0
ZeroTokenBody(bodies) ==
    /\ p_eng = "vllm" /\ p_resp.post = "none" /\ p_resp.status = HttpOk
    /\ p_resp.body \in bodies

\* C12 as stated: a 200 reply with zero parsed token events gives a successful
\* Sample with 50 tokens, for the three engine kinds, the empty stream and the
\* body with no usable choices included.
C12_ZeroTokensGiveFallback ==
    (ProbeDone /\ (ZeroTokenStream \/ ZeroTokenBody({"nochoices", "empty", "notext", "text0"})))
        => /\ p_out[1].raised = "none" /\ p_out[1].sample.success
           /\ p_out[1].sample.tokens = FallbackTokens

\* C12 amended: a 200 reply with zero parsed token events gives a successful
\* Sample with 50 tokens when it is a stream (the empty stream included) or a
\* JSON body that has no `choices` key or whose first choice has no or an empty
\* text; a JSON body whose `choices` list is empty gives a failed Sample with
\* 0 tokens.
C12_FallbackUnlessChoicesEmpty ==
    ProbeDone =>
        /\ (ZeroTokenStream \/ ZeroTokenBody({"nochoices", "notext", "text0"}))
              => /\ p_out[1].raised = "none" /\ p_out[1].sample.success
                 /\ p_out[1].sample.tokens = FallbackTokens
        /\ ZeroTokenBody({"empty"})
              => /\ p_out[1].raised = "none" /\ ~p_out[1].sample.success
                 /\ p_out[1].sample.tokens = 0

\* a JSON body without the `choices` key was given the fallback
C12_Witness ==
    /\ ProbeDone /\ ZeroTokenBody({"nochoices"})
    /\ p_out[1].sample.success /\ p_out[1].sample.tokens = FallbackTokens

\* the lines of a stream that are JSON
ValidLines(ls) == SelectSeq(ls, JsonOk)
WithoutMalformed == [p_resp EXCEPT !.lines = ValidLines(@)]

\* C13: in a streamed 200 reply a malformed line raises nothing, adds no
\* token and does not change the outcome: the Sample has the outcome, the
\* error and the token count of the same stream without its malformed lines,
\* and for a stream read to its end the Sample is a success.
C13_MalformedLinesSkipped ==
    (ProbeDone /\ Streaming(p_eng) /\ p_resp.post = "none" /\ p_resp.status = HttpOk) =>
        LET got == p_out[1]
            clean == measure_single_request(p_eng, WithoutMalformed, p_tfirst, p_total)
        IN  /\ got.raised = "none"
            /\ got.sample.success = clean.sample.success
            /\ got.sample.error = clean.sample.error
            /\ got.sample.tokens = clean.sample.tokens
            /\ p_resp.tail = "none" => got.sample.success
            /\ (p_resp.tail = "none" /\ StreamTokens(p_eng, ValidLines(p_resp.lines)) > 0)
                  => got.sample.tokens = StreamTokens(p_eng, ValidLines(p_resp.lines))

\* a malformed line before a valid one: one token
C13_Witness ==
    /\ ProbeDone /\ p_eng = "llama.cpp" /\ p_resp.post = "none" /\ p_resp.status = HttpOk
    /\ p_resp.tail = "none" /\ p_resp.lines = << "garbage", "tok" >>
    /\ p_out[1].sample.success /\ p_out[1].sample.tokens = 1

\* C14: the RunResult is computed at most once, in a step taken when every
\* worker has exited and no request is open, from the whole of `results`;
\* from then on neither `results` nor the RunResult changes, and the returned
\* RunResult counts every Sample a worker produced.
C14_AggregatedOnceAtEnd ==
    /\ [][ret' # ret =>
             /\ ret.kind = "running" /\ main_pc' = "done"
             /\ ret'.kind = "result" =>
                   /\ \A w \in Workers : wpc[w] = "exited" /\ inflight[w] = 0
                   /\ results' = results
                   /\ ret'.value = _aggregate_results(results, Duration)
        ]_vars
    /\ [][main_pc = "done" => (results' = results /\ ret' = ret)]_vars
    /\ [](RunDone =>
            /\ ret.value = _aggregate_results(results, Duration)
            /\ ret.value.successful_requests + ret.value.failed_requests = Len(results)
            /\ Len(results) = Issued)

\* a RunResult that counts successes and failures of a finished run
C14_Witness ==
    /\ RunDone /\ ret.value = _aggregate_results(results, Duration)
    /\ ret.value.successful_requests >= 1 /\ ret.value.failed_requests >= 1

\* a worker task that could run if it were given the event loop
Runnable(w) == wpc[w] \in {"ready", "resumable"}

\* C15: no worker blocks on another worker.  A worker that could run waits for
\* the worker that holds the event loop no longer than to that worker's next
\* request, where that worker is suspended at its own network I/O: no worker
\* makes a prober call and keeps the event loop while another worker waits
\* for it.
C15_NoWorkerBlocksAnother ==
    [][\A v \in Workers :
          (cur = v /\ issued'[v] # issued[v] /\ \E w \in Workers \ {v} : Runnable(w))
              => cur' # v
      ]_vars

\* the permutations of 1 .. n
Perms(n) == {f \in [1 .. n -> 1 .. n] : \A i, j \in 1 .. n : f[i] = f[j] => i = j}
Permuted(rs, f) == [i \in 1 .. Len(rs) |-> rs[f[i]]]

\* C16: the RunResult does not depend on the order of the Samples: every
\* permutation of the Sample sequence aggregates to the same RunResult.
C16_OrderIrrelevant ==
    AggDone =>
        \A f \in Perms(Len(a_in)) : _aggregate_results(Permuted(a_in, f), a_dur) = a_out[1]

\* successes given in descending ttft order, and a failure between them
C16_Witness ==
    /\ AggDone /\ Len(a_in) = 3
    /\ a_in[1].success /\ ~a_in[2].success /\ a_in[3].success
    /\ a_in[1].ttft[1] > a_in[3].ttft[1]
    /\ a_out[1].ttft_p50 > 0

Min(a, b) == IF a < b THEN a ELSE b
IsAscending(v) == \A i \in 1 .. Len(v) - 1 : v[i] <= v[i + 1]

\* the ttfts of the successful Samples of a_in, in ascending order
AggTtftsAscending ==
    LET idx == {i \in 1 .. Len(a_in) : a_in[i].success}
        n == Cardinality(idx)
    IN  CHOOSE v \in [1 .. n -> 0 .. MaxDu] :
            /\ IsAscending(v)
            /\ \A t \in 0 .. MaxDu :
                  Cardinality({i \in 1 .. n : v[i] = t})
                      = Cardinality({i \in idx : a_in[i].ttft[1] = t})

\* v[f] + (k - f) * (v[c] - v[f]) with k = (n-1)*p/100, f = floor(k),
\* c = min(f+1, n-1) (indices from 0), times 100
Interpolated100(v, p) ==
    LET n == Len(v)
        f == ((n - 1) * p) \div 100
        c == Min(f + 1, n - 1)
    IN  100 * v[f + 1] + ((n - 1) * p - 100 * f) * (v[c + 1] - v[f + 1])

\* [0.1, 0.2, 0.3, 0.4, 0.5] seconds, in du
ExampleTtfts == [i \in 1 .. 5 |-> i * 100 * SubMs]

\* C17: each of ttft_p50, ttft_p95, ttft_p99 is the linear interpolation
\* between the order statistics of the ascending ttfts of the successful
\* Samples (reported rounded to 3 decimals), and for [0.1, 0.2, 0.3, 0.4, 0.5]
\* the p50 is 0.3 and the p99 is 0.496.
C17_LinearInterpolation ==
    /\ (AggDone /\ AggSuccessful > 0) =>
          LET v == AggTtftsAscending
              Reported(p) == RoundStep * RoundHalfEven(Interpolated100(v, p), 100 * RoundStep)
          IN  /\ \A p \in {50, 95, 99} : percentile100(v, p) = Interpolated100(v, p)
              /\ a_out[1].ttft_p50 = Reported(50)
              /\ a_out[1].ttft_p95 = Reported(95)
              /\ a_out[1].ttft_p99 = Reported(99)
    /\ AggDone =>
          /\ percentile100(ExampleTtfts, 50) = 100 * (300 * SubMs)
          /\ percentile100(ExampleTtfts, 99) = 100 * (496 * SubMs)
          /\ RoundedPercentile(ExampleTtfts, 50) = 300 * SubMs
          /\ RoundedPercentile(ExampleTtfts, 99) = 496 * SubMs

\* an interpolated percentile that lies strictly between two order statistics
C17_Witness ==
    /\ AggDone /\ AggSuccessful >= 2
    /\ LET v == AggTtftsAscending
       IN  \E p \in {50, 95, 99} :
              /\ 100 * v[1] < Interpolated100(v, p)
              /\ Interpolated100(v, p) < 100 * v[Len(v)]

\* the tokens of the successful Samples among the first n of rs
RECURSIVE TokensOfSuccessful(_, _)
TokensOfSuccessful(rs, n) ==
    IF n = 0 THEN 0
    ELSE (IF rs[n].success THEN rs[n].tokens ELSE 0) + TokensOfSuccessful(rs, n - 1)

\* C18: total_tokens is the sum of the token counts of the successful Samples;
\* the failed Samples add nothing to it or to the percentiles; and
\* tokens_per_sec is total_tokens over the configured duration (to one
\* decimal), whatever time the run took.
C18_TokensOverConfiguredDuration ==
    RunDone =>
        LET r == ret.value
            onlySuccessful == _aggregate_results(SelectSeq(results, LAMBDA x : x.success),
                                                 Duration)
        IN  /\ r.total_tokens = TokensOfSuccessful(results, Len(results))
            /\ r.tokens_per_sec = RoundHalfEven(r.total_tokens * Pow10(TpsDecimals), Duration)
            /\ r.total_tokens = onlySuccessful.total_tokens
            /\ r.tokens_per_sec = onlySuccessful.tokens_per_sec
            /\ r.ttft_p50 = onlySuccessful.ttft_p50
            /\ r.ttft_p95 = onlySuccessful.ttft_p95
            /\ r.ttft_p99 = onlySuccessful.ttft_p99

\* a run that took longer than its duration, with successes and a failure
C18_Witness ==
    /\ RunDone /\ now - start_time > Duration
    /\ ret.value.total_tokens >= 1 /\ ret.value.failed_requests >= 1
    /\ ret.value.tokens_per_sec * Duration = ret.value.total_tokens * Pow10(TpsDecimals)

\* Sample sequences of every mix of token counts: i Samples of 1 token and
\* j Samples of FallbackTokens tokens
TokenMixes ==
    {[k \in 1 .. i + j |-> SuccessSample(Some(0), 0, IF k <= i THEN 1 ELSE FallbackTokens)] :
        i \in 0 .. MaxSamples, j \in 0 .. MaxSamples}

\* C19: for a fixed duration tokens_per_sec is monotonic non-decreasing in
\* total_tokens: a Sample sequence aggregated with the same duration that has
\* at least (at most) the total_tokens of this one reports at least (at most)
\* its tokens_per_sec.
C19_ThroughputMonotonic ==
    AggDone =>
        \A other \in TokenMixes :
            LET o == _aggregate_results(other, a_dur)
                r == a_out[1]
            IN  /\ o.total_tokens >= r.total_tokens => o.tokens_per_sec >= r.tokens_per_sec
                /\ o.total_tokens <= r.total_tokens => o.tokens_per_sec <= r.tokens_per_sec

\* a sequence with more tokens and a strictly larger throughput exists
C19_Witness ==
    /\ AggDone /\ a_dur = MaxAggDuration /\ a_out[1].tokens_per_sec > 0
    /\ \E other \in TokenMixes :
          LET o == _aggregate_results(other, a_dur)
          IN  /\ o.total_tokens > a_out[1].total_tokens
              /\ o.tokens_per_sec > a_out[1].tokens_per_sec

CeilDiv(a, b) == (a + b - 1) \div b
Abs(x) == IF x < 0 THEN 0 - x ELSE x

\* tokens the adapter counts in the completion the steady target sends
SteadyTokens == measure_single_request(engine, Completion(engine), 0, 0).sample.tokens

\* 30 successful Samples with ttft 0.1 s, total time 0.2 s and 10 tokens
ThirtySamples == [i \in 1 .. 30 |-> SuccessSample(Some(100 * SubMs), 200 * SubMs, 10)]

\* C20: against a target that always succeeds after the constant latency L,
\* with W workers and duration D, every worker makes D/L requests rounded up
\* (within one of D/L), so successful_count is W times that (within W of
\* W * D/L) and failed_count is 0; the ttft_p50 is the target's ttft and
\* tokens_per_sec the tokens of all requests over D.  30 Samples of ttft
\* 0.1 s and 10 tokens aggregated with duration 2 give 30, 0.1 and 150.0.
C20_SteadyTarget ==
    RunDone =>
        LET r == ret.value
            n == CeilDiv(duration, latency)
            e == _aggregate_results(ThirtySamples, 2)
        IN  /\ \A w \in Workers :
                  /\ issued[w] = n /\ prompt_idx[w] = n
                  /\ Abs(issued[w] * latency - duration) < latency
            /\ r.failed_requests = 0
            /\ r.successful_requests = NumWorkers * n
            /\ Abs(r.successful_requests * latency - NumWorkers * duration)
                  <= NumWorkers * latency
            /\ r.ttft_p50 = SteadyTtft(engine, latency * TickDu)
            /\ r.total_tokens = r.successful_requests * SteadyTokens
            /\ r.tokens_per_sec
                  = RoundHalfEven(r.total_tokens * Pow10(TpsDecimals), duration)
            /\ e.successful_requests = 30 /\ e.failed_requests = 0
            /\ e.ttft_p50 = 100 * SubMs
            /\ e.tokens_per_sec = 150 * Pow10(TpsDecimals)

\* a duration that is no multiple of the latency: the last request of every
\* worker ends after the deadline
C20_Witness ==
    /\ RunDone /\ duration = 3 /\ latency = 2
    /\ \A w \in Workers : issued[w] = 2
    /\ ret.value.successful_requests = 2 * NumWorkers
    /\ now - start_time = 4

\* C21: the worker loop does not busy-spin.  Every Sample is the outcome of a
\* request that was sent to the target and awaited, so the Samples of a run
\* are at most the requests its workers had the time to make (about
\* duration / latency + 1 each).
C21_SamplesBoundedByRequests ==
    /\ Len(results) <= posts
    /\ \A w \in Workers : wpc[w] = "append" => inflight[w] > 0

\* C22: the run overshoots its deadline by at most one request's timeout.
\* Every request is started before the deadline and is open for no longer
\* than the timeout, and the run has returned no later than duration +
\* timeout after the shared start.
C22_OvershootWithinTimeout ==
    /\ main_pc \in {"gather", "done"} => now - start_time <= duration + TimeoutTicks
    /\ \A w \in Workers :
          inflight[w] > 0 =>
              /\ req_start[w] - start_time < duration
              /\ now - req_start[w] <= TimeoutTicks

\* a request sent in the last tick before the deadline ran into its timeout
C22_Witness ==
    /\ RunDone /\ now - start_time = duration - 1 + TimeoutTicks
    /\ \E i \in 1 .. Len(results) :
          results[i].error = "Timeout" /\ results[i].total_time = TimeoutTicks * TickDu

C24_TtftAtFirstTokenLine ==
    (/\ ProbeDone /\ Streaming(p_eng) /\ p_out[1].sample.success
     /\ TokenLines(p_eng, p_resp.lines) # {})
        => p_out[1].sample.ttft = Some(p_ttoken)

\* C25: a reply whose status is not 200 gives a failed Sample whose error
\* names the status, with no ttft and no tokens, and its body is not read:
\* neither the lines it carries nor a failure of the body read show in the
\* Sample.
C25_ErrorStatusGivesHttpError ==
    (ProbeDone /\ p_eng \in KnownEngines /\ ErrorStatus) =>
        /\ p_out[1].raised = "none"
        /\ p_out[1].sample = [ttft |-> None, total_time |-> p_total, tokens |-> 0,
                              success |-> FALSE,
                              error |-> "HTTP " \o ToString(p_resp.status)]
        /\ p_resp.status = 404 => p_out[1].sample.error = "HTTP 404"

\* a 404 whose body holds a token line and would break off when read
C25_Witness ==
    /\ ProbeDone /\ p_eng = "llama.cpp" /\ p_resp.post = "none"
    /\ p_resp.status = 404 /\ p_resp.lines = << "tok" >> /\ p_resp.tail = "ClientError"
    /\ p_out[1].sample.error = "HTTP 404" /\ p_out[1].sample.tokens = 0
    /\ p_total > 0

\* the exception a request of a known engine kind runs into, "none" if none:
\* before the status arrives, while the stream is read, or when the body of
\* a non-streaming reply is parsed
FailureOf(eng, resp) ==
    IF resp.post # "none" THEN resp.post
    ELSE IF resp.status # HttpOk THEN "none"
    ELSE IF Streaming(eng) THEN resp.tail
    ELSE IF resp.body = "bad" THEN "JSONDecodeError"
    ELSE IF resp.body = "empty" THEN "IndexError"
    ELSE "none"

\* C26: a request that times out gives a Sample with error Timeout, any other
\* transport or parse failure a Sample whose error is the failure's
\* description; both are failed Samples with no ttft and no tokens, also when
\* the failure comes after lines of the stream were timed and counted, and
\* their total_time is the time elapsed up to the failure.
C26_FailuresGiveNullFields ==
    (ProbeDone /\ p_eng \in KnownEngines /\ FailureOf(p_eng, p_resp) # "none") =>
        /\ p_out[1].raised = "none"
        /\ p_out[1].sample =
              [ttft |-> None, total_time |-> p_total, tokens |-> 0, success |-> FALSE,
               error |-> IF FailureOf(p_eng, p_resp) = "TimeoutError" THEN "Timeout"
                         ELSE FailureOf(p_eng, p_resp)]

\* a stream that times out after a token line that arrived earlier
C26_Witness ==
    /\ ProbeDone /\ p_eng = "llama.cpp" /\ p_resp.post = "none"
    /\ p_resp.status = HttpOk /\ p_resp.lines = << "tok" >>
    /\ p_resp.tail = "TimeoutError" /\ p_tfirst < p_total
    /\ p_out[1].sample.error = "Timeout" /\ p_out[1].sample.ttft = None
    /\ p_out[1].sample.tokens = 0 /\ p_out[1].sample.total_time = p_total

C28_UnsetTtftIsTotalTime ==
    (/\ ProbeDone /\ Streaming(p_eng) /\ p_resp.post = "none"
     /\ p_resp.status = HttpOk /\ p_resp.lines = << >> /\ p_resp.tail = "none") =>
        /\ p_out[1].raised = "none" /\ p_out[1].sample.success
        /\ p_out[1].sample.total_time = p_total
        /\ p_out[1].sample.ttft = Some(p_total)

\* an empty ollama stream that closed after some time
C28_Witness ==
    /\ ProbeDone /\ p_eng = "ollama" /\ p_resp.post = "none"
    /\ p_resp.status = HttpOk /\ p_resp.lines = << >> /\ p_resp.tail = "none"
    /\ p_total = MaxDu /\ p_out[1].sample.success
    /\ p_out[1].sample.ttft = Some(MaxDu)

\* C29: each worker keeps its own prompt counter, starting at 0.  The k-th
\* request of a worker (k from 0, whatever its earlier requests came to) is
\* made with prompts[k mod len(prompts)]; the counter is the number of the
\* worker's finished requests, and a request of one worker changes neither
\* the counter nor the prompt nor the count of another.
C29_OwnPromptCounter ==
    /\ [](\A w \in Workers :
            /\ prompt_idx[w] = issued[w] - (IF Outstanding(w) THEN 1 ELSE 0)
            /\ Outstanding(w) => req_prompt[w] = (issued[w] - 1) % NumPrompts)
    /\ [][\A w \in Workers :
            issued'[w] # issued[w] =>
                /\ issued'[w] = issued[w] + 1
                /\ req_prompt'[w] = issued[w] % NumPrompts
                /\ \A v \in Workers \ {w} :
                      /\ issued'[v] = issued[v]
                      /\ prompt_idx'[v] = prompt_idx[v]
                      /\ req_prompt'[v] = req_prompt[v]
       ]_vars

\* a worker's request number NumPrompts is open with the first prompt again,
\* after requests with every other prompt
C29_Witness ==
    \E w \in Workers :
        /\ issued[w] = NumPrompts + 1 /\ prompt_idx[w] = NumPrompts
        /\ wpc[w] = "inflight" /\ req_prompt[w] = 0
        /\ Len(results) >= NumPrompts

\* the lines of a stream that are JSON objects with a `content` field
ContentLines(lines) == {i \in 1 .. Len(lines) : lines[i] \in {"tok", "tokstop"}}

\* C30: for the llama.cpp engine kind every streamed JSON object that has a
\* `content` field adds exactly one token, and an object with `stop: true`
\* does not end the reading: the lines after it are read and counted like
\* the lines before it, until the connection closes.
C30_OneTokenPerContentObject ==
    (/\ ProbeDone /\ p_eng = "llama.cpp" /\ p_resp.post = "none"
     /\ p_resp.status = HttpOk /\ p_resp.tail = "none") =>
        /\ p_out[1].sample.success
        /\ p_out[1].sample.tokens =
              IF ContentLines(p_resp.lines) = {} THEN FallbackTokens
              ELSE Cardinality(ContentLines(p_resp.lines))

\* a content line after a line with `stop: true` is counted
C30_Witness ==
    /\ ProbeDone /\ p_eng = "llama.cpp" /\ p_resp.post = "none"
    /\ p_resp.status = HttpOk /\ p_resp.tail = "none"
    /\ Len(p_resp.lines) >= 2
    /\ p_resp.lines[1] = "tokstop" /\ p_resp.lines[Len(p_resp.lines)] = "tok"
    /\ p_out[1].sample.tokens = Cardinality(ContentLines(p_resp.lines))
    /\ p_out[1].sample.tokens >= 2

\* the whitespace-separated words of the `response` field of a line (none
\* when the line has no such field, or no text in it)
ResponseWords(l) == CASE l = "resp1" -> 1 [] l = "resp2" -> 2 [] OTHER -> 0

RECURSIVE SumResponseWords(_)
SumResponseWords(lines) ==
    IF lines = << >> THEN 0
    ELSE ResponseWords(Head(lines)) + SumResponseWords(Tail(lines))

\* C31: for the ollama engine kind the token count of a successful Sample is
\* the sum, over the streamed lines that have a `response` field, of the
\* number of whitespace-separated words of that field, and the fallback of
\* 50 when that sum is 0.
C31_OllamaCountsWords ==
    (/\ ProbeDone /\ p_eng = "ollama" /\ p_resp.post = "none"
     /\ p_resp.status = HttpOk /\ p_resp.tail = "none") =>
        /\ p_out[1].sample.success
        /\ p_out[1].sample.tokens =
              IF SumResponseWords(p_resp.lines) = 0 THEN FallbackTokens
              ELSE SumResponseWords(p_resp.lines)

\* two lines with two words and one word give three tokens
C31_Witness ==
    /\ ProbeDone /\ p_eng = "ollama" /\ p_resp.post = "none"
    /\ p_resp.status = HttpOk /\ p_resp.tail = "none"
    /\ p_resp.lines = << "resp2", "resp1" >>
    /\ p_out[1].sample.tokens = 3

\* the whitespace-separated words of choices[0].text of a JSON body
TextWords(b) == CASE b = "text1" -> 1 [] b = "text2" -> 2 [] OTHER -> 0

\* C32: for the vllm engine kind the token count of a successful Sample is
\* the number of whitespace-separated words of choices[0].text of the one
\* JSON body, taken from the parsed body as a whole, and the fallback of 50
\* when that number is 0.
C32_VllmCountsWordsOfText ==
    (ProbeDone /\ p_eng = "vllm" /\ p_out[1].sample.success) =>
        /\ p_resp.post = "none" /\ p_resp.status = HttpOk
        /\ p_resp.body \notin {"bad", "empty"}
        /\ p_out[1].sample.tokens =
              IF TextWords(p_resp.body) = 0 THEN FallbackTokens
              ELSE TextWords(p_resp.body)

\* a text of two words gives two tokens
C32_Witness ==
    /\ ProbeDone /\ p_eng = "vllm" /\ p_out[1].sample.success
    /\ p_resp.body = "text2" /\ p_out[1].sample.tokens = 2
    /\ p_tfirst = p_total /\ p_total > 0

\* C33: the shared start timestamp is written once, before any worker has
\* begun, and not again: it changes only in the step that launches the
\* workers, where it takes the clock's value, and every request of every
\* worker is started on a comparison of the clock with that one start, so a
\* worker that is scheduled late gets no later deadline.
C33_StartWrittenOnce ==
    /\ [][start_time' # start_time =>
             /\ main_pc = "health_done" /\ main_pc' = "gather"
             /\ start_time' = now
             /\ \A w \in Workers : wpc[w] = "none" /\ issued[w] = 0
        ]_vars
    /\ [][\A w \in Workers :
             (issued'[w] # issued[w] \/ wpc[w] # wpc'[w]) =>
                 /\ main_pc = "gather" => start_time' = start_time
                 /\ issued'[w] # issued[w] => now - start_time < duration
        ]_vars

\* a worker that first ran at the deadline left without a request, while
\* another worker made one
C33_Witness ==
    /\ RunDone /\ start_time = ClockOrigin
    /\ \E w, v \in Workers :
          /\ wpc[w] = "exited" /\ issued[w] = 0
          /\ wpc[v] = "exited" /\ issued[v] >= 1

WellFormed(s) ==
    IF s.success
    THEN /\ s.ttft # None /\ 0 <= s.ttft[1] /\ s.ttft[1] <= s.total_time
         /\ s.tokens >= 1 /\ s.error = "None"
    ELSE /\ s.ttft = None /\ s.tokens = 0 /\ s.error # "None"

\* C34: every Sample the prober returns is well formed.  A successful Sample
\* has a ttft with 0 <= ttft <= total_time, at least one token and no error;
\* a failed Sample has no ttft, no tokens and an error.  So is every Sample
\* in the list of the run.
C34_SamplesWellFormed ==
    /\ ProbeDone => p_out[1].raised = "none" /\ WellFormed(p_out[1].sample)
    /\ \A i \in 1 .. Len(results) : WellFormed(results[i])

\* a success with a ttft strictly inside the request's time
C34_Witness ==
    /\ ProbeDone /\ p_out[1].sample.success /\ Streaming(p_eng)
    /\ p_out[1].sample.ttft # None
    /\ 0 < p_out[1].sample.ttft[1] /\ p_out[1].sample.ttft[1] < p_out[1].sample.total_time
    /\ p_out[1].sample.tokens = 1 /\ WellFormed(p_out[1].sample)

\* C35 as stated: with at least one successful Sample the reported
\* percentiles lie within the data and in order,
\* min(ttft) <= ttft_p50 <= ttft_p95 <= ttft_p99 <= max(ttft), and with a
\* single successful Sample all three equal its ttft.
C35_PercentilesWithinData ==
    (AggDone /\ AggSuccessful > 0) =>
        LET v == AggTtftsAscending
            r == a_out[1]
        IN  /\ v[1] <= r.ttft_p50 /\ r.ttft_p50 <= r.ttft_p95
            /\ r.ttft_p95 <= r.ttft_p99 /\ r.ttft_p99 <= v[Len(v)]
            /\ Len(v) = 1 => r.ttft_p50 = v[1] /\ r.ttft_p95 = v[1] /\ r.ttft_p99 = v[1]

\* C35 amended: with at least one successful Sample the percentiles before
\* rounding lie within the data and in order; the reported ones are these
\* rounded to 3 decimals, so they are in order, multiples of 0.001 s, and
\* within half a rounding step of [min(ttft), max(ttft)]; with a single
\* successful Sample all three are its ttft rounded to 3 decimals.
C35_PercentilesWithinDataUpToRounding ==
    (AggDone /\ AggSuccessful > 0) =>
        LET v == AggTtftsAscending
            r == a_out[1]
            lo == 100 * v[1]
            hi == 100 * v[Len(v)]
            half == 50 * RoundStep
        IN  /\ lo <= percentile100(v, 50)
            /\ percentile100(v, 50) <= percentile100(v, 95)
            /\ percentile100(v, 95) <= percentile100(v, 99)
            /\ percentile100(v, 99) <= hi
            /\ r.ttft_p50 <= r.ttft_p95 /\ r.ttft_p95 <= r.ttft_p99
            /\ \A q \in {r.ttft_p50, r.ttft_p95, r.ttft_p99} :
                  /\ q % RoundStep = 0
                  /\ lo - half <= 100 * q /\ 100 * q <= hi + half
            /\ Len(v) = 1 => r.ttft_p50 = r.ttft_p95 /\ r.ttft_p95 = r.ttft_p99

\* a single successful Sample whose ttft is not a multiple of 0.001 s is
\* reported with another value
C35_Witness ==
    /\ AggDone /\ AggSuccessful = 1
    /\ AggTtftsAscending[1] % RoundStep # 0
    /\ a_out[1].ttft_p50 # AggTtftsAscending[1]
    /\ a_out[1].ttft_p99 = a_out[1].ttft_p50

\* C36: the session is opened before the health check and closed exactly
\* once on every way out of run_real_benchmark (target unavailable, run
\* completed, exception raised).  It is open from the first step to the
\* return and closed from then on, it is never reopened, and no health or
\* generation request is sent or answered while it is not open.
C36_SessionOpenedAndClosedOnce ==
    /\ [](/\ session = "none" <=> main_pc = "enter"
          /\ session = "closed" <=> main_pc = "done"
          /\ main_pc \in {"health", "health_done", "gather"} => session = "open"
          /\ (\E w \in Workers : inflight[w] > 0) => session = "open"
          /\ session # "open" => ret # NotReturned \/ (posts = 0 /\ h_resp = NoResponse))
    /\ [][session' # session =>
             ((session = "none" /\ session' = "open")
                \/ (session = "open" /\ session' = "closed" /\ ret' # NotReturned))
       ]_vars
    /\ [][(posts' # posts \/ h_resp' # h_resp) =>
             (session = "open" /\ session' = "open")
       ]_vars

\* a run that was interrupted with requests sent has its session closed
C36_Witness ==
    /\ session = "closed" /\ main_pc = "done"
    /\ ret = CancelledOut /\ posts > 0

\* what C37 says of an unknown engine kind apart from the other workers:
\* nothing is raised, the health check goes to /health, every attempt is a
\* failed Sample with no request sent, and the run ends at the deadline with
\* no success and error_rate 1.0
UnknownEngineFailsQuietly ==
    engine \notin KnownEngines =>
        /\ ret.kind # "raised" /\ \A w \in Workers : wpc[w] # "crashed"
        /\ health_endpoint(engine) = "/health"
        /\ posts = 0 /\ \A w \in Workers : inflight[w] = 0
        /\ \A i \in 1 .. Len(results) : ~results[i].success
        /\ main_pc = "gather" => now - start_time <= duration
        /\ RunDone =>
              /\ ret.value.successful_requests = 0
              /\ ret.value.failed_requests = Len(results)
              /\ ret.value.error_rate = One
              /\ now - start_time <= duration

\* C37: an engine kind outside {llama.cpp, ollama, vllm} makes neither the
\* prober nor the load generator raise: the health check goes to /health,
\* every attempt becomes a failed Sample with no request sent, the other
\* workers still get to run (a worker that has made an attempt gives up the
\* event loop to a worker that waits for it), and the run ends at the
\* deadline with successful_count 0 and error_rate 1.0.
C37_UnknownEngineHarmless ==
    /\ []UnknownEngineFailsQuietly
    /\ [][\A v \in Workers :
            (/\ engine \notin KnownEngines
             /\ cur = v /\ wpc[v] = "append" /\ wpc'[v] = "looptop"
             /\ \E w \in Workers \ {v} : wpc[w] = "ready")
                => cur' # v
       ]_vars

\* the (engine, concurrency) trials of a sweep, engine-major
Trials(es, ls) ==
    [k \in 1 .. Len(es) * Len(ls) |->
        << es[((k - 1) \div Len(ls)) + 1], ls[((k - 1) % Len(ls)) + 1] >>]

\* C38: in BenchmarkRunner.run a trial whose target is unavailable or whose
\* benchmark raises adds no record and does not stop the sweep.  When the
\* sweep is over it has returned, every (engine, concurrency) trial has been
\* attempted in engine-major order, and results['benchmarks'] has at most
\* one record per trial.
C38_SweepAttemptsEveryTrial ==
    sw_pc \in {"raised", "done"} =>
        /\ sw_pc = "done" /\ sw_raised = "none"
        /\ sw_attempted = Trials(sw_engines, sw_levels)
        /\ Len(sw_benchmarks) <= Len(sw_attempted)

====
